---- MODULE Spec2Model ----
(***************************************************************************)
(* Model of bf::Map (map.cpp): loading, the per-frame object activation    *)
(* pass Map::update, Map::interact, Map::reloadObject and the collision    *)
(* queries.  Objects are Map::Object instances built by generateObject     *)
(* from the Tmx object descriptions of the parsed map source.              *)
(***************************************************************************)
EXTENDS Integers, Sequences, FiniteSets, TLC

\* ------------------------------------------------------------------ bounds

\* Map::Object instances that may be constructed in one behaviour.
MaxInstances == 4

\* Successful parses of a map source by one Map in one behaviour.
MaxLoads == 2

\* ------------------------------------------------------- the parsed source

\* sf::Vector2u holds 32-bit unsigned coordinates, kept here as two 16-bit
\* halves.
HalfWord == 65536

\* Conversion of the int i to unsigned (two's complement, modulo 2^32).
ToUnsigned(i) == [hi |-> (i \div HalfWord) % HalfWord, lo |-> i % HalfWord]

\* u < n for an unsigned u and a map dimension n.
ULess(u, n) == u.hi = 0 /\ u.lo < n

\* 0 <= u, which holds of every unsigned u.
UNonNeg(u) == u.hi >= 0 /\ u.lo >= 0

Seasons == {"spring", "summer", "autumn", "winter"}

\* std::tolower over the layer and type names that occur in the sources.
ToLower(s) ==
    CASE s = "Collision" -> "collision"
      [] s = "COLLISION" -> "collision"
      [] s = "Field"     -> "field"
      [] OTHER           -> s

\* The object descriptions (Tmx::Object) of the source, by index.
TmxObjects == 1..3

TmxName(t) == CASE t = 1 -> "a" [] t = 2 -> "b" [] OTHER -> "c"

TmxType(t) == CASE t = 1 -> "door" [] t = 2 -> "sign" [] OTHER -> "npc"

\* GetX, GetY, GetWidth, GetHeight of each description.
TmxRect(t) ==
    CASE t = 1 -> [left |-> 0, top |-> 0, width |-> 2, height |-> 2]
      [] t = 2 -> [left |-> 1, top |-> 0, width |-> 2, height |-> 1]
      [] OTHER -> [left |-> 1, top |-> 0, width |-> 1, height |-> 2]

\* Names a caller may pass to reloadObject; "ghost" names no object.
Names == {"a", "b", "c", "ghost"}

\* Every layer of a source has these fields; hasSeason tells whether the
\* layer has a "season" property, render = "" stands for no "render"
\* property, and tiles says, row by row, which tiles have a tileset.
Layer(n, hasSeason, seasons, render, tiles) ==
    [name |-> n, hasSeason |-> hasSeason, seasons |-> seasons,
     render |-> render, tiles |-> tiles]

\* A std::string, character by character.
Str(s) == s

\* Two map sources: one with a collision layer, one without.  properties
\* holds the map's properties other than "type", by name.
MapSources ==
    << [layers |-> << Layer("ground", FALSE, {}, "", <<TRUE, TRUE, TRUE, TRUE>>),
                      Layer("Collision", FALSE, {}, "", <<FALSE, FALSE, TRUE, TRUE>>),
                      Layer("trees", FALSE, {}, "above", <<FALSE, TRUE, FALSE, FALSE>>),
                      Layer("snow", TRUE, {"winter"}, "", <<FALSE, FALSE, TRUE, FALSE>>),
                      Layer("flowers", TRUE, {"spring", "summer"}, "above", <<TRUE, FALSE, FALSE, FALSE>>),
                      Layer("COLLISION", FALSE, {}, "", <<TRUE, FALSE, FALSE, FALSE>>) >>,
        groups |-> << <<1, 2>>, <<3>> >>,
        width |-> 2, height |-> 2, type |-> "",
        properties |-> [north |-> Str(<<"b", "n", ",", "3">>),
                        west |-> Str(<<"t">>)] ],
       [layers |-> << Layer("ground", FALSE, {}, "", <<TRUE, FALSE, FALSE, FALSE>>),
                      Layer("roof", TRUE, {"spring", "summer"}, "above", <<FALSE, FALSE, FALSE, TRUE>>) >>,
        groups |-> << <<1, 2, 3>> >>,
        width |-> 2, height |-> 2, type |-> "interior",
        properties |-> [south |-> Str(<<"b", ",", "-", "2">>),
                        east |-> Str(<<"t", ",", "1", "0">>),
                        west |-> Str(<<"t", ",", "0">>)] ],
       [layers |-> << Layer("ground", FALSE, {}, "",
                            [i \in 1..20 |-> i % 3 # 0]),
                      Layer("Collision", FALSE, {}, "",
                            [i \in 1..20 |-> i % 4 = 1]),
                      Layer("roof", FALSE, {}, "above",
                            [i \in 1..20 |-> i % 5 = 2]) >>,
        groups |-> << <<1>> >>,
        width |-> 5, height |-> 4, type |-> "",
        properties |-> [north |-> Str(<<"t">>)] ] >>

\* The sources of two tiles by two tiles.
SmallSources == {1, 2}

\* The source that is wider and higher than the screen.
LargeSource == 3

\* World points the actor (and the queries) range over.
Points == {[x |-> px, y |-> py] : px \in 0..2, py \in 0..1}

\* The callbacks of Map::Object that run script code.
Callbacks ==
    {"onExit", "update", "whileInside", "onEnter", "onInteract", "hasCollision"}

\* Floats are kept as integers in units of 1 / Scale.
Scale == 40

\* One tenth of a pixel.
Tenth == Scale \div 10

\* global.h: the size of a tile and of the screen in pixels; the model's
\* tiles and screen are a few pixels wide.
TILE_WIDTH == 2

TILE_HEIGHT == 2

SCREEN_WIDTH == 4

SCREEN_HEIGHT == 2

\* ------------------------------------------------------------------- state

VARIABLES
    g_Field,          \* farm.cpp: the tiles of the farm field, by index
    m_field,          \* m_bounds of the Field object on the map
    m_children,       \* the drawables attached to the Script object
    drawableRef,      \* lua::Drawable::ref of each drawable
    registry,         \* the Lua registry as luaL_ref and luaL_unref see it
    checked,          \* the build checks iterators (debug containers)
    loaded,           \* Map::load has completed on this instance
    source,           \* index of the parsed source in MapSources (m_map)
    m_mapID,
    m_season,
    m_collision,      \* index of the collision layer in the source, 0 = nullptr
    m_lower,          \* layer indexes drawn below the objects
    m_upper,          \* layer indexes drawn above the objects
    m_isExterior,
    m_neighbors,      \* per direction: the neighbor map ("" = nullptr) and its offset
    m_objects,        \* std::vector< Map::Object * >
    m_activeObjects,  \* std::vector< Map::Object * >
    nextId,           \* identity of the next constructed instance
    insidePrev,       \* instances whose bounds held the position of the previous update
    crashed,          \* the process has terminated abnormally
    parsed,           \* how many sources m_map has parsed so far
    position,         \* sf::Transformable position of every live instance
    m_area,           \* MapViewer: the view rectangle
    last              \* the last operation: its inputs, callbacks, result

farmVars == << g_Field, m_field >>

scriptVars == << m_children, drawableRef, registry >>

vars == << farmVars, scriptVars, checked, loaded, source, m_mapID, m_season, m_collision, m_lower,
           m_upper, m_isExterior, m_neighbors, m_objects, m_activeObjects, nextId,
           insidePrev, crashed, parsed, position, m_area, last >>

\* ----------------------------------------------------------------- helpers

\* A pointer to a Map::Object: the instance's identity with the fields
\* generateObject fixes at construction (m_object, hence m_name and m_bounds).
Instance(n, t) == [id |-> n, tmx |-> t]

getName(o) == TmxName(o.tmx)

getBounds(o) == TmxRect(o.tmx)

\* sf::Transformable::getPosition
getPosition(o) == position[o.id]

\* sf::Rect::contains
contains(r, p) ==
    /\ p.x >= r.left
    /\ p.x < r.left + r.width
    /\ p.y >= r.top
    /\ p.y < r.top + r.height

Range(s) == {s[i] : i \in 1..Len(s)}

\* std::find: the first index holding v, or Len(s) + 1 for end().
find(s, v) ==
    IF \E i \in 1..Len(s) : s[i] = v
    THEN CHOOSE i \in 1..Len(s) : s[i] = v /\ \A j \in 1..(i - 1) : s[j] # v
    ELSE Len(s) + 1

\* vector::erase at index k of the first sz slots of the storage buf: the
\* slots after k move down by one and slot sz keeps its old content.
EraseAt(buf, sz, k) ==
    [j \in 1..Len(buf) |-> IF j >= k /\ j < sz THEN buf[j + 1] ELSE buf[j]]

\* How many entries of the callback log are callback cb on instance o.
Count(calls, cb, o) ==
    Cardinality({i \in 1..Len(calls) : calls[i].cb = cb /\ calls[i].obj = o})

\* ------------------------------------------------------------- Map::update

\* One callback invocation inside try { ... } catch ( std::exception & ):
\* the call is logged; a callback that throws leaves one line on the console.
Invoke(acc, cb, o, pos, faulty) ==
    [acc EXCEPT
        !.calls = Append(@, [cb |-> cb, obj |-> o.id,
                             x |-> pos.x - getPosition(o).x,
                             y |-> pos.y - getPosition(o).y]),
        !.console = IF <<cb, o.tmx>> \in faulty
                    THEN Append(@, <<cb, o.id>>) ELSE @]

\* The first loop of Map::update: a range-based for over m_activeObjects
\* whose body erases from m_activeObjects.  The loop walks the vector's
\* storage buf from slot i to the end() it read before the first iteration,
\* while sz is the vector's current size.  Erasing invalidates the loop's
\* iterator: a build with checked iterators aborts at the next increment, an
\* unchecked one goes on over the storage, reading slots past the current
\* size.  When the object read from such a slot is no longer in the vector,
\* std::find returns end() and erase( end() ) is undefined: the process
\* crashes or the vector loses its last element, as eraseEnd says.
RECURSIVE ExitWalk(_, _, _, _, _, _, _, _)
ExitWalk(buf, sz, i, pos, faulty, chk, eraseEnd, acc) ==
    IF i > Len(buf)
    THEN [active |-> SubSeq(buf, 1, sz), acc |-> acc]
    ELSE LET object == buf[i] IN
         IF contains(getBounds(object), pos)
         THEN ExitWalk(buf, sz, i + 1, pos, faulty, chk, eraseEnd, acc)
         ELSE LET acc1 == Invoke(acc, "onExit", object, pos, faulty)
                  k == find(SubSeq(buf, 1, sz), object)
              IN  IF k <= sz
                  THEN IF chk
                       THEN [active |-> SubSeq(EraseAt(buf, sz, k), 1, sz - 1),
                             acc |-> [acc1 EXCEPT !.crashed = TRUE]]
                       ELSE ExitWalk(EraseAt(buf, sz, k), sz - 1, i + 1,
                                     pos, faulty, chk, eraseEnd, acc1)
                  ELSE IF eraseEnd = "crash"
                       THEN [active |-> SubSeq(buf, 1, sz),
                             acc |-> [acc1 EXCEPT !.crashed = TRUE]]
                       ELSE ExitWalk(buf, sz - 1, i + 1,
                                     pos, faulty, chk, eraseEnd, acc1)

ExitPhase(active, pos, faulty, chk, eraseEnd, acc) ==
    ExitWalk(active, Len(active), 1, pos, faulty, chk, eraseEnd, acc)

\* The second loop: update on every object of the map.
RECURSIVE UpdatePhase(_, _, _, _, _)
UpdatePhase(objects, i, pos, faulty, acc) ==
    IF i > Len(objects) THEN acc
    ELSE UpdatePhase(objects, i + 1, pos, faulty,
                     Invoke(acc, "update", objects[i], pos, faulty))

\* The third loop: whileInside on every active object.
RECURSIVE InsidePhase(_, _, _, _, _)
InsidePhase(active, i, pos, faulty, acc) ==
    IF i > Len(active) THEN acc
    ELSE InsidePhase(active, i + 1, pos, faulty,
                     Invoke(acc, "whileInside", active[i], pos, faulty))

\* The fourth loop with push_back moved inside the try block: an onEnter that
\* throws leaves the object out of the active vector.
RECURSIVE EnterPhaseInTry(_, _, _, _, _, _)
EnterPhaseInTry(objects, i, active, pos, faulty, acc) ==
    IF i > Len(objects) THEN [active |-> active, acc |-> acc]
    ELSE LET object == objects[i] IN
         IF /\ contains(getBounds(object), pos)
            /\ find(active, object) = Len(active) + 1
         THEN EnterPhaseInTry(objects, i + 1,
                              IF <<"onEnter", object.tmx>> \in faulty
                              THEN active ELSE Append(active, object),
                              pos, faulty,
                              Invoke(acc, "onEnter", object, pos, faulty))
         ELSE EnterPhaseInTry(objects, i + 1, active, pos, faulty, acc)

\* The fourth loop without the std::find test: an object that holds pos is
\* entered and pushed whether or not it is active already.
RECURSIVE EnterPhaseNoFind(_, _, _, _, _, _)
EnterPhaseNoFind(objects, i, active, pos, faulty, acc) ==
    IF i > Len(objects) THEN [active |-> active, acc |-> acc]
    ELSE LET object == objects[i] IN
         IF contains(getBounds(object), pos)
         THEN EnterPhaseNoFind(objects, i + 1, Append(active, object), pos,
                               faulty,
                               Invoke(acc, "onEnter", object, pos, faulty))
         ELSE EnterPhaseNoFind(objects, i + 1, active, pos, faulty, acc)

\* The fourth loop: onEnter on every object that holds pos and is not active.
RECURSIVE EnterPhase(_, _, _, _, _, _)
EnterPhase(objects, i, active, pos, faulty, acc) ==
    IF i > Len(objects) THEN [active |-> active, acc |-> acc]
    ELSE LET object == objects[i] IN
         IF /\ contains(getBounds(object), pos)
            /\ find(active, object) = Len(active) + 1
         THEN EnterPhase(objects, i + 1, Append(active, object), pos, faulty,
                         Invoke(acc, "onEnter", object, pos, faulty))
         ELSE EnterPhase(objects, i + 1, active, pos, faulty, acc)

NoCalls == [calls |-> << >>, console |-> << >>, crashed |-> FALSE]

\* Map::update with the enter loop run before the whileInside loop.
UpdateResultEnterFirst(objects, active, pos, faulty, chk, eraseEnd) ==
    LET p1 == ExitPhase(active, pos, faulty, chk, eraseEnd, NoCalls) IN
    IF p1.acc.crashed
    THEN [active |-> p1.active, calls |-> p1.acc.calls,
          console |-> p1.acc.console, crashed |-> TRUE]
    ELSE LET a2 == UpdatePhase(objects, 1, pos, faulty, p1.acc)
             p3 == EnterPhase(objects, 1, p1.active, pos, faulty, a2)
             a4 == InsidePhase(p3.active, 1, pos, faulty, p3.acc)
         IN  [active |-> p3.active, calls |-> a4.calls,
              console |-> a4.console, crashed |-> FALSE]

\* Map::update( frameTime, pos ): the active vector, the callbacks made, the
\* console lines written, and whether the call ended in a crash.
UpdateResult(objects, active, pos, faulty, chk, eraseEnd) ==
    LET p1 == ExitPhase(active, pos, faulty, chk, eraseEnd, NoCalls) IN
    IF p1.acc.crashed
    THEN [active |-> p1.active, calls |-> p1.acc.calls,
          console |-> p1.acc.console, crashed |-> TRUE]
    ELSE LET a2 == UpdatePhase(objects, 1, pos, faulty, p1.acc)
             a3 == InsidePhase(p1.active, 1, pos, faulty, a2)
             p4 == EnterPhase(objects, 1, p1.active, pos, faulty, a3)
         IN  [active |-> p4.active, calls |-> p4.acc.calls,
              console |-> p4.acc.console, crashed |-> FALSE]

\* ----------------------------------------------------------- Map::interact

\* The loop with ret = true moved inside the try block: an onInteract that
\* throws does not count as a match.
RECURSIVE InteractLoopRetInTry(_, _, _, _, _, _)
InteractLoopRetInTry(objects, i, pos, faulty, ret, acc) ==
    IF i > Len(objects) THEN [ret |-> ret, acc |-> acc]
    ELSE IF contains(getBounds(objects[i]), pos)
         THEN InteractLoopRetInTry(objects, i + 1, pos, faulty,
                           ret \/ <<"onInteract", objects[i].tmx>> \notin faulty,
                           Invoke(acc, "onInteract", objects[i], pos, faulty))
         ELSE InteractLoopRetInTry(objects, i + 1, pos, faulty, ret, acc)

RECURSIVE InteractLoop(_, _, _, _, _, _)
InteractLoop(objects, i, pos, faulty, ret, acc) ==
    IF i > Len(objects) THEN [ret |-> ret, acc |-> acc]
    ELSE IF contains(getBounds(objects[i]), pos)
         THEN InteractLoop(objects, i + 1, pos, faulty, TRUE,
                           Invoke(acc, "onInteract", objects[i], pos, faulty))
         ELSE InteractLoop(objects, i + 1, pos, faulty, ret, acc)

\* Map::interact( pos ): the returned flag and the callbacks made.
InteractResult(objects, pos, faulty) ==
    InteractLoop(objects, 1, pos, faulty, FALSE, NoCalls)

\* --------------------------------------------------------------- collision

\* Tmx::Layer::GetTile( x, y ).tileset != 0: the tile at y * width + x of
\* the layer's row-major tile array has a tileset.
HasTileset(src, layer, x, y) ==
    LET tiles == MapSources[src].layers[layer].tiles
        at == y * MapSources[src].width + x + 1
    IN  at \in DOMAIN tiles /\ tiles[at]

\* Map::checkTileCollision with pos.x <= getWidth() for the column test.
checkTileCollisionOffByOne(src, collision, ux, uy) ==
    /\ collision # 0
    /\ UNonNeg(ux) /\ ULess(ux, MapSources[src].width + 1)
    /\ UNonNeg(uy) /\ ULess(uy, MapSources[src].height)
    /\ HasTileset(src, collision, ux.lo, uy.lo)

\* Map::checkTileCollision( pos ) for the unsigned coordinates ux, uy.
checkTileCollision(src, collision, ux, uy) ==
    /\ collision # 0
    /\ UNonNeg(ux) /\ ULess(ux, MapSources[src].width)
    /\ UNonNeg(uy) /\ ULess(uy, MapSources[src].height)
    /\ HasTileset(src, collision, ux.lo, uy.lo)

\* What the script of description t answers to hasCollision( x, y ): the
\* script of "a" blocks everywhere, the one of "b" defines no hasCollision,
\* the one of "c" blocks its top row.
ScriptAnswer(t, lx, ly) ==
    CASE t = 1 -> TRUE
      [] t = 2 -> FALSE
      [] OTHER -> ly = 0

\* Script::hasCollision: false when the script has no such function or the
\* call fails, else what the script returns.
hasCollision(o, lx, ly, faulty) ==
    IF <<"hasCollision", o.tmx>> \in faulty THEN FALSE
    ELSE ScriptAnswer(o.tmx, lx, ly)

\* The loop of Map::checkObjectCollision; asked lists the objects whose
\* hasCollision was called.
RECURSIVE ObjectCollisionLoop(_, _, _, _, _)
ObjectCollisionLoop(objects, i, pos, faulty, asked) ==
    IF i > Len(objects) THEN [ret |-> FALSE, asked |-> asked]
    ELSE LET obj == objects[i] IN
         IF contains(getBounds(obj), pos)
         THEN IF hasCollision(obj, pos.x - getPosition(obj).x,
                              pos.y - getPosition(obj).y, faulty)
              THEN [ret |-> TRUE, asked |-> Append(asked, obj.id)]
              ELSE ObjectCollisionLoop(objects, i + 1, pos, faulty,
                                       Append(asked, obj.id))
         ELSE ObjectCollisionLoop(objects, i + 1, pos, faulty, asked)

\* The loop without the bounds test: every object is asked hasCollision.
RECURSIVE ObjectCollisionLoopAll(_, _, _, _, _)
ObjectCollisionLoopAll(objects, i, pos, faulty, asked) ==
    IF i > Len(objects) THEN [ret |-> FALSE, asked |-> asked]
    ELSE LET obj == objects[i] IN
         IF hasCollision(obj, pos.x - getPosition(obj).x,
                         pos.y - getPosition(obj).y, faulty)
         THEN [ret |-> TRUE, asked |-> Append(asked, obj.id)]
         ELSE ObjectCollisionLoopAll(objects, i + 1, pos, faulty,
                                     Append(asked, obj.id))

\* Map::checkObjectCollision asking every object, whatever its bounds.
checkObjectCollisionNoBounds(collision, objects, pos, faulty) ==
    IF collision = 0
    THEN [ret |-> FALSE, asked |-> << >>]
    ELSE ObjectCollisionLoopAll(objects, 1, pos, faulty, << >>)

\* Map::checkObjectCollision( pos )
checkObjectCollision(collision, objects, pos, faulty) ==
    IF collision = 0
    THEN [ret |-> FALSE, asked |-> << >>]
    ELSE ObjectCollisionLoop(objects, 1, pos, faulty, << >>)

\* ------------------------------------------------------- Map::reloadObject

\* The object descriptions of a source in group order, then object order.
RECURSIVE Flatten(_)
Flatten(groups) ==
    IF groups = << >> THEN << >> ELSE Head(groups) \o Flatten(Tail(groups))

\* Index of the first live object called name, or Len + 1.
FindByName(objects, name) ==
    IF \E i \in 1..Len(objects) : getName(objects[i]) = name
    THEN CHOOSE i \in 1..Len(objects) :
            /\ getName(objects[i]) = name
            /\ \A j \in 1..(i - 1) : getName(objects[j]) # name
    ELSE Len(objects) + 1

\* The description called name in the source's object groups, 0 for nullptr.
FindTmxByName(src, name) ==
    LET all == Flatten(MapSources[src].groups) IN
    IF \E i \in 1..Len(all) : TmxName(all[i]) = name
    THEN all[CHOOSE i \in 1..Len(all) :
                /\ TmxName(all[i]) = name
                /\ \A j \in 1..(i - 1) : TmxName(all[j]) # name]
    ELSE 0

RemoveAt(s, k) == SubSeq(s, 1, k - 1) \o SubSeq(s, k + 1, Len(s))

\* Map::reloadObject without the removal from m_activeObjects: the deleted
\* instance stays in the active vector.
ReloadResultKeepsActive(src, objects, active, name, id, genOk, nullDeref) ==
    LET k == FindByName(objects, name)
        found == k <= Len(objects)
        objTmx == IF found THEN objects[k].tmx ELSE FindTmxByName(src, name)
        objects1 == IF found THEN RemoveAt(objects, k) ELSE objects
    IN  IF objTmx = 0
        THEN [objects |-> objects1, active |-> active,
              ret |-> IF nullDeref = "crash" THEN "crash" ELSE "threw",
              made |-> 0]
        ELSE IF genOk
             THEN [objects |-> Append(objects1, Instance(id, objTmx)),
                   active |-> active, ret |-> "ok", made |-> id]
             ELSE [objects |-> objects1, active |-> active,
                   ret |-> "threw", made |-> 0]

\* Map::reloadObject( objStr ).  genOk: generateObject succeeds (the script
\* loads); id: identity of the instance it constructs.  With no description
\* found, generateObject is handed *nullptr: nullDeref says whether the
\* process crashes or the fault surfaces as an exception.
\* ret: "ok", "threw" (an exception leaves the call) or "crash".
ReloadResult(src, objects, active, name, id, genOk, nullDeref) ==
    LET k == FindByName(objects, name)
        found == k <= Len(objects)
        objTmx == IF found THEN objects[k].tmx ELSE FindTmxByName(src, name)
        objects1 == IF found THEN RemoveAt(objects, k) ELSE objects
        a == IF found THEN find(active, objects[k]) ELSE Len(active) + 1
        active1 == IF a <= Len(active) THEN RemoveAt(active, a) ELSE active
    IN  IF objTmx = 0
        THEN [objects |-> objects1, active |-> active1,
              ret |-> IF nullDeref = "crash" THEN "crash" ELSE "threw",
              made |-> 0]
        ELSE IF genOk
             THEN [objects |-> Append(objects1, Instance(id, objTmx)),
                   active |-> active1, ret |-> "ok", made |-> id]
             ELSE [objects |-> objects1, active |-> active1,
                   ret |-> "threw", made |-> 0]

\* --------------------------------------------------------------- Map::load

\* time::parseSeasons: the seasons a "season" property names.
parseSeasons(value) == value

\* A const Tmx::Layer *: layer i of the map-th source m_map parsed.
LayerPtr(map, i) == [map |-> map, layer |-> i]

\* The layer loop without the season test: every layer is added.
RECURSIVE LoadLayersAllSeasons(_, _, _, _, _, _, _)
LoadLayersAllSeasons(map, layers, i, season, collision, lower, upper) ==
    IF i > Len(layers)
    THEN [collision |-> collision, lower |-> lower, upper |-> upper]
    ELSE LET l == layers[i] IN
         IF collision = 0 /\ ToLower(l.name) = "collision"
         THEN LoadLayersAllSeasons(map, layers, i + 1, season, i, lower, upper)
         ELSE LET isUpper == l.render = "above"
                  ptr == LayerPtr(map, i)
              IN  LoadLayersAllSeasons(map, layers, i + 1, season, collision,
                             IF ~isUpper THEN Append(lower, ptr) ELSE lower,
                             IF isUpper THEN Append(upper, ptr) ELSE upper)

\* The layer loop without the m_collision == nullptr test: the last layer
\* called collision wins.
RECURSIVE LoadLayersLastCollision(_, _, _, _, _, _, _)
LoadLayersLastCollision(map, layers, i, season, collision, lower, upper) ==
    IF i > Len(layers)
    THEN [collision |-> collision, lower |-> lower, upper |-> upper]
    ELSE LET l == layers[i] IN
         IF ToLower(l.name) = "collision"
         THEN LoadLayersLastCollision(map, layers, i + 1, season, i, lower, upper)
         ELSE LET add == IF l.hasSeason
                         THEN season \in parseSeasons(l.seasons) ELSE TRUE
                  isUpper == l.render = "above"
                  ptr == LayerPtr(map, i)
              IN  LoadLayersLastCollision(map, layers, i + 1, season, collision,
                             IF add /\ ~isUpper THEN Append(lower, ptr) ELSE lower,
                             IF add /\ isUpper THEN Append(upper, ptr) ELSE upper)

\* The layer loop of Map::load over the layers of the map-th source m_map
\* parsed, in order.
RECURSIVE LoadLayers(_, _, _, _, _, _, _)
LoadLayers(map, layers, i, season, collision, lower, upper) ==
    IF i > Len(layers)
    THEN [collision |-> collision, lower |-> lower, upper |-> upper]
    ELSE LET l == layers[i] IN
         IF collision = 0 /\ ToLower(l.name) = "collision"
         THEN LoadLayers(map, layers, i + 1, season, i, lower, upper)
         ELSE LET add == IF l.hasSeason
                         THEN season \in parseSeasons(l.seasons) ELSE TRUE
                  isUpper == l.render = "above"
                  ptr == LayerPtr(map, i)
              IN  LoadLayers(map, layers, i + 1, season, collision,
                             IF add /\ ~isUpper THEN Append(lower, ptr) ELSE lower,
                             IF add /\ isUpper THEN Append(upper, ptr) ELSE upper)

\* generateObject( tmxObject ): the new instance, or a throw (ok = FALSE)
\* after which nothing of the object is left.
generateObject(id, t, ok) == IF ok THEN << Instance(id, t) >> ELSE << >>

\* The object loop of Map::load: every description is tried, fail holds the
\* descriptions whose construction throws.
RECURSIVE LoadObjects(_, _, _, _, _)
LoadObjects(all, i, fail, id, objects) ==
    IF i > Len(all) THEN [objects |-> objects, nextId |-> id]
    ELSE LET made == generateObject(id, all[i], all[i] \notin fail) IN
         LoadObjects(all, i + 1, fail, id + Len(made), objects \o made)

Directions == {"Up", "Down", "Left", "Right"}

\* std::make_pair( nullptr, 0 ) in every direction; a bound neighbor is
\* kept as the name db::getMap was asked for, the empty name being nullptr.
NoNeighbors == [d \in Directions |-> [map |-> << >>, offset |-> 0]]

\* std::string::find( c ): the first index of c in str, 0 for npos.
FindChar(str, c) ==
    IF \E i \in 1..Len(str) : str[i] = c
    THEN CHOOSE i \in 1..Len(str) : str[i] = c /\ \A j \in 1..(i - 1) : str[j] # c
    ELSE 0

DigitChars == <<"0", "1", "2", "3", "4", "5", "6", "7", "8", "9">>

IsDigit(c) == \E d \in 1..10 : DigitChars[d] = c

DigitValue(c) == (CHOOSE d \in 1..10 : DigitChars[d] = c) - 1

\* The digits at the front of str, read as a decimal number.
RECURSIVE ReadDigits(_, _)
ReadDigits(str, acc) ==
    IF str = << >> \/ ~IsDigit(Head(str)) THEN acc
    ELSE ReadDigits(Tail(str), 10 * acc + DigitValue(Head(str)))

\* std::istringstream( str ) >> int: leading blanks are skipped, a sign may
\* precede the digits, reading stops at the first character that is no
\* digit, and a text without digits there stores 0.
RECURSIVE ExtractInt(_)
ExtractInt(str) ==
    IF str = << >> THEN 0
    ELSE IF Head(str) = " " THEN ExtractInt(Tail(str))
    ELSE IF Head(str) = "-" THEN 0 - ReadDigits(Tail(str), 0)
    ELSE IF Head(str) = "+" THEN ReadDigits(Tail(str), 0)
    ELSE ReadDigits(str, 0)

\* setNeighbor reading the offset from substr( pos ), comma included.
setNeighborFromComma(map, str, m) ==
    IF str \notin DOMAIN map THEN m
    ELSE LET value == map[str]
             pos == FindChar(value, ",")
             _map == IF pos # 0 THEN SubSeq(value, 1, pos - 1) ELSE value
         IN  [map |-> _map,
              offset |-> IF pos # 0
                         THEN ExtractInt(SubSeq(value, pos, Len(value)))
                         ELSE m.offset]

\* setNeighbor( map, str, m ): the pair m after the call.
setNeighbor(map, str, m) ==
    IF str \notin DOMAIN map THEN m
    ELSE LET value == map[str]
             pos == FindChar(value, ",")
             _map == IF pos # 0 THEN SubSeq(value, 1, pos - 1) ELSE value
         IN  [map |-> _map,
              offset |-> IF pos # 0
                         THEN ExtractInt(SubSeq(value, pos + 1, Len(value)))
                         ELSE m.offset]

NoPoint == [x |-> -1, y |-> -1]

Quiet(r) == [active |-> r.active, calls |-> r.calls, crashed |-> r.crashed]

NoQuiet == [active |-> << >>, calls |-> << >>, crashed |-> FALSE]

\* The record of an operation, with the state it started from.
Op(name) ==
    [op |-> name, pos |-> NoPoint, tx |-> 0, ty |-> 0, name |-> "",
     faulty |-> {}, calls |-> << >>, console |-> << >>, ret |-> "none",
     asked |-> << >>, made |-> 0, quiet |-> NoQuiet, children |-> << >>, passed |-> {},
     objectsBefore |-> m_objects, activeBefore |-> m_activeObjects,
     insideBefore |-> insidePrev,
     id |-> 0, src |-> 0, fail |-> {}, drawn |-> << >>,
     mapIDBefore |-> m_mapID, collisionBefore |-> m_collision,
     lowerBefore |-> m_lower, upperBefore |-> m_upper,
     neighborsBefore |-> m_neighbors, sourceBefore |-> source,
     positionBefore |-> position, areaBefore |-> m_area]

Bool(b) == IF b THEN "true" ELSE "false"

Ids(objects) == {objects[i].id : i \in 1..Len(objects)}

\* The positions of the instances in objects: an instance that has none yet
\* was just built by generateObject, which puts it at its bounds origin; the
\* position of a deleted instance is gone.
Placed(pos, objects) ==
    [i \in Ids(objects) |->
        IF i \in DOMAIN pos THEN pos[i]
        ELSE LET o == CHOOSE x \in Range(objects) : x.id = i
             IN  [x |-> getBounds(o).left, y |-> getBounds(o).top]]

\* The callbacks in kinds of the descriptions in T throw.
Faults(kinds, T) == {<<cb, t>> : cb \in kinds, t \in T}

\* The fault sets tried for an operation that runs the callbacks in kinds:
\* none, or the scripts of some descriptions throw in one or all of them.
FaultChoices(kinds) ==
    {{}} \cup {Faults(K, T) : K \in {kinds} \cup {{cb} : cb \in kinds},
                              T \in {{t} : t \in TmxObjects} \cup {TmxObjects}}

UpdateCallbacks == {"onExit", "update", "whileInside", "onEnter"}

\* ------------------------------------------------------------ farm, Field

\* farm.h: the farm field is WIDTH x HEIGHT tiles; the model's is small.
WIDTH == 2

HEIGHT == 2

\* The side of a farm tile in pixels, the 32U of Field::convert.
TilePixels == 32

\* A field::Tile whose object is nullptr, and one holding a planted object;
\* solid is what the object's hasCollision() returns.
NoObject == [object |-> FALSE, solid |-> FALSE]

Planted(solid) == [object |-> TRUE, solid |-> solid]

\* The bounds of a Field object that covers the farm field exactly, and of
\* one whose description in the map source is one tile wider.
GridField ==
    [left |-> 64, top |-> 64,
     width |-> WIDTH * TilePixels, height |-> HEIGHT * TilePixels]

WideField == [GridField EXCEPT !.width = (WIDTH + 1) * TilePixels]

\* Field::convert( pos ) for a pos with no negative coordinate.
FieldConvert(pos) == [x |-> pos.x \div TilePixels, y |-> pos.y \div TilePixels]

\* farm.cpp convert( x, y )
convert(x, y) == y * WIDTH + x

\* field::getTile( x, y ): the tile read, or wild when the index is past
\* the end of the array.
getTile(tiles, x, y, wild) ==
    IF convert(x, y) \in DOMAIN tiles THEN tiles[convert(x, y)] ELSE wild

\* Field::hasCollision( pos )
FieldHasCollision(tiles, pos, wild) ==
    LET fpos == FieldConvert(pos)
        tile == getTile(tiles, fpos.x, fpos.y, wild)
    IN  tile.object /\ tile.solid

\* The test of Map::checkObjectCollision applied to the Field object, whose
\* position is the origin of its bounds.
FieldCollides(bounds, tiles, pos, wild) ==
    /\ contains(bounds, pos)
    /\ FieldHasCollision(tiles, [x |-> pos.x - bounds.left,
                                 y |-> pos.y - bounds.top], wild)

\* World points around and inside the Field objects.
FieldPoints ==
    {[x |-> px, y |-> py] : px \in {63, 64, 95, 96, 127, 128, 159, 160},
                            py \in {63, 64, 100, 127, 128}}

\* What a read past the end of the tiles may find.
WildTiles == {NoObject, Planted(TRUE), Planted(FALSE)}

\* ------------------------------------------------------------ Lua drawables

\* The drawables a script holds: an image and a text.
Drawables == {"image", "text"}

LUA_NOREF == 0 - 2

\* The registry: what each key holds ("" for a key on the free list), the
\* next key on the free list after each key, the head of the free list
\* (0: empty) and the number of keys in use or on the free list.
EmptyRegistry ==
    [held |-> [k \in 1..Cardinality(Drawables) |-> ""],
     next |-> [k \in 1..Cardinality(Drawables) |-> 0],
     free |-> 0, size |-> 0]

\* The key luaL_ref gives out: the head of the free list, or a new key.
NextRef(reg) == IF reg.free # 0 THEN reg.free ELSE reg.size + 1

\* luaL_ref( l, LUA_REGISTRYINDEX ) with the drawable d on the stack.
luaL_ref(reg, d) ==
    LET k == NextRef(reg) IN
    [held |-> [reg.held EXCEPT ![k] = d],
     next |-> reg.next,
     free |-> IF reg.free # 0 THEN reg.next[reg.free] ELSE 0,
     size |-> IF reg.free # 0 THEN reg.size ELSE reg.size + 1]

\* luaL_unref( l, LUA_REGISTRYINDEX, ref )
luaL_unref(reg, k) ==
    IF k < 0 THEN reg
    ELSE [held |-> [reg.held EXCEPT ![k] = ""],
          next |-> [reg.next EXCEPT ![k] = reg.free],
          free |-> k, size |-> reg.size]

\* --------------------------------------------------------------- MapViewer

\* std::floor and std::ceil of a float.
Floor(f) == (f \div Scale) * Scale

Ceil(f) == IF f % Scale = 0 THEN f ELSE Floor(f) + Scale

\* round( float ) with > for >=: a fraction of one half goes down.
roundHalfDown(f) ==
    IF 2 * (f - Floor(f)) > Scale THEN Ceil(f) ELSE Floor(f)

\* round( float )
round(f) ==
    IF 2 * (f - Floor(f)) >= Scale THEN Ceil(f) ELSE Floor(f)

\* round( const sf::Vector2f & )
roundVector(f) == [x |-> round(f.x), y |-> round(f.y)]

\* f / 2.0f, exact for the even values the views take.
Half(f) == f \div 2

\* The area after MapViewer::center( pos ).
CenterResult(area, pos) ==
    LET p == roundVector(pos) IN
    [area EXCEPT !.left = p.x - Half(area.width),
                 !.top = p.y - Half(area.height)]

Max(a, b) == IF a >= b THEN a ELSE b

Min(a, b) == IF a <= b THEN a ELSE b

\* static_cast< int >( f / n ) for a float f and a tile size n in pixels.
TruncDiv(f, n) ==
    IF f >= 0 THEN f \div (n * Scale) ELSE 0 - ((0 - f) \div (n * Scale))

\* std::ceil( f / n ) as an int.
CeilDiv(f, n) == 0 - ((0 - f) \div (n * Scale))

\* The tile range without the two corrections against the map's size.
DrawRangeNoClamp(rect, width, height) ==
    [left |-> Max(0, TruncDiv(rect.left, TILE_WIDTH)),
     top |-> Max(0, TruncDiv(rect.top, TILE_HEIGHT)),
     width |-> CeilDiv(rect.width, TILE_WIDTH) + 1,
     height |-> CeilDiv(rect.height, TILE_HEIGHT) + 1]

\* The tile range MapViewer::draw computes for the view rect.
DrawRange(rect, width, height) ==
    LET left == Max(0, TruncDiv(rect.left, TILE_WIDTH))
        top == Max(0, TruncDiv(rect.top, TILE_HEIGHT))
        w == CeilDiv(rect.width, TILE_WIDTH) + 1
        h == CeilDiv(rect.height, TILE_HEIGHT) + 1
    IN  [left |-> IF left + w >= width THEN width - w ELSE left,
         top |-> IF top + h >= height THEN height - h ELSE top,
         width |-> w, height |-> h]

\* sf::Rect::intersects
intersects(r1, r2) ==
    LET interLeft == Max(Min(r1.left, r1.left + r1.width),
                         Min(r2.left, r2.left + r2.width))
        interTop == Max(Min(r1.top, r1.top + r1.height),
                        Min(r2.top, r2.top + r2.height))
        interRight == Min(Max(r1.left, r1.left + r1.width),
                          Max(r2.left, r2.left + r2.width))
        interBottom == Min(Max(r1.top, r1.top + r1.height),
                           Max(r2.top, r2.top + r2.height))
    IN  interLeft < interRight /\ interTop < interBottom

\* A rectangle in pixels as a float rectangle.
ToFloatRect(r) ==
    [left |-> r.left * Scale, top |-> r.top * Scale,
     width |-> r.width * Scale, height |-> r.height * Scale]

\* assertBounds( pos, width, height ) returns, and does not throw.
assertBounds(ux, uy, width, height) ==
    /\ ~(~UNonNeg(ux) \/ ~ULess(ux, width))
    /\ ~(~UNonNeg(uy) \/ ~ULess(uy, height))

\* The ints from max( lo, 0 ) to hi - 1, in order.
Span(lo, hi) == [k \in 1..Max(hi - Max(lo, 0), 0) |-> Max(lo, 0) + k - 1]

\* One call of target.draw.
Submission(kind, what, x, y) == [kind |-> kind, what |-> what, x |-> x, y |-> y]

NoDraws == [drawn |-> << >>, threw |-> FALSE, passed |-> {}]

\* renderLayer over the layers in layer, from its li-th layer and the k-th
\* tile of the range on: rows from top to bottom, each from left to right.
RECURSIVE renderLayer(_, _, _, _, _, _)
renderLayer(kind, layer, draw, li, k, acc) ==
    LET xs == Span(draw.left, draw.left + draw.width)
        ys == Span(draw.top, draw.top + draw.height)
    IN  IF li > Len(layer) \/ acc.threw THEN acc
        ELSE IF k > Len(xs) * Len(ys)
        THEN renderLayer(kind, layer, draw, li + 1, 1, acc)
        ELSE LET x == xs[((k - 1) % Len(xs)) + 1]
                 y == ys[((k - 1) \div Len(xs)) + 1]
             IN  IF ~assertBounds(ToUnsigned(x), ToUnsigned(y),
                                  MapSources[source].width,
                                  MapSources[source].height)
                 THEN [acc EXCEPT !.threw = TRUE, !.passed = @ \cup {<<x, y>>}]
                 ELSE renderLayer(kind, layer, draw, li, k + 1,
                         IF HasTileset(source, layer[li].layer, x, y)
                         THEN [acc EXCEPT !.passed = @ \cup {<<x, y>>}, !.drawn =
                                  Append(@, Submission(kind, layer[li].layer, x, y))]
                         ELSE [acc EXCEPT !.passed = @ \cup {<<x, y>>}])

\* The object loop of MapViewer::draw: the objects whose bounds intersect
\* rect are drawn at their bounds origin relative to the view.
RECURSIVE DrawObjects(_, _, _, _)
DrawObjects(objects, i, rect, acc) ==
    IF i > Len(objects) THEN acc
    ELSE LET objRect == ToFloatRect(getBounds(objects[i])) IN
         DrawObjects(objects, i + 1, rect,
            IF intersects(rect, objRect)
            THEN [acc EXCEPT !.drawn =
                     Append(@, Submission("object", objects[i].id,
                                          objRect.left - rect.left,
                                          objRect.top - rect.top))]
            ELSE acc)

\* The positions after the object loop: a drawn object is left at the
\* origin of its bounds.
ResetPositions(objects, rect, pos) ==
    [i \in DOMAIN pos |->
        IF \E o \in Range(objects) :
              o.id = i /\ intersects(rect, ToFloatRect(getBounds(o)))
        THEN LET o == CHOOSE x \in Range(objects) : x.id = i
             IN  [x |-> getBounds(o).left, y |-> getBounds(o).top]
        ELSE pos[i]]

\* The character loop of MapViewer::draw; debug is DEBUG_COLLISION.
RECURSIVE DrawCharacters(_, _, _, _, _, _)
DrawCharacters(characters, i, mapID, rect, debug, acc) ==
    IF i > Len(characters) THEN acc
    ELSE LET c == characters[i] IN
         IF c.map = mapID /\ intersects(rect, c.bounds)
         THEN LET sprite == Submission("actor", i, c.bounds.left - rect.left,
                                       c.bounds.top - rect.top)
                  col == Submission("overlay", i, c.bounds.left - rect.left,
                                    c.bounds.top - rect.top)
              IN  DrawCharacters(characters, i + 1, mapID, rect, debug,
                     [acc EXCEPT !.drawn =
                         IF debug THEN Append(Append(@, sprite), col)
                         ELSE Append(@, sprite)])
         ELSE DrawCharacters(characters, i + 1, mapID, rect, debug, acc)

\* MapViewer::draw with the upper layers rendered right after the lower ones.
DrawResultUpperFirst(rect, characters, debug) ==
    LET draw == DrawRange(rect, MapSources[source].width,
                          MapSources[source].height)
        a1 == renderLayer("lower", m_lower, draw, 1, 1, NoDraws)
        a2 == renderLayer("upper", m_upper, draw, 1, 1, a1)
        a3 == IF a2.threw THEN a2 ELSE DrawObjects(m_objects, 1, rect, a2)
        a4 == IF a3.threw THEN a3
              ELSE DrawCharacters(characters, 1, m_mapID, rect, debug, a3)
    IN  IF a4.threw \/ ~(debug /\ m_collision # 0) THEN a4
        ELSE renderLayer("collision", << LayerPtr(parsed, m_collision) >>,
                         draw, 1, 1, a4)

\* MapViewer::draw: the calls of target.draw, in order, and whether an
\* exception left the call.
DrawResult(rect, characters, debug) ==
    LET draw == DrawRange(rect, MapSources[source].width,
                          MapSources[source].height)
        a1 == renderLayer("lower", m_lower, draw, 1, 1, NoDraws)
        a2 == IF a1.threw THEN a1 ELSE DrawObjects(m_objects, 1, rect, a1)
        a3 == IF a2.threw THEN a2
              ELSE DrawCharacters(characters, 1, m_mapID, rect, debug, a2)
        a4 == renderLayer("upper", m_upper, draw, 1, 1, a3)
    IN  IF a4.threw \/ ~(debug /\ m_collision # 0) THEN a4
        ELSE renderLayer("collision", << LayerPtr(parsed, m_collision) >>,
                         draw, 1, 1, a4)

\* A Character: the id of the map it is on and its bounds.
Character(map, left, top) ==
    [map |-> map,
     bounds |-> [left |-> left, top |-> top, width |-> Scale, height |-> Scale]]

\* The characters a viewer may hold: none, or one on this map in view, one
\* on another map and one on this map far away.
CharacterLists ==
    { << >>,
      << Character(1, Scale, Scale), Character(2, Scale, Scale),
         Character(1, 90 * Scale, 90 * Scale), Character(1, 0, Scale) >> }

\* Points a view is centered on: 10.5, 3.4, -1.5 and others.
CenterPoints ==
    {[x |-> px * Tenth, y |-> py * Tenth] :
        px \in {0 - 15, 14, 105}, py \in {0 - 5, 34}}

\* Dimensions a view is given.
Dimensions ==
    {[x |-> SCREEN_WIDTH * Scale, y |-> SCREEN_HEIGHT * Scale],
     [x |-> 2 * Scale, y |-> 3 * Scale]}

\* Points and dimensions of views inside, across and outside the maps:
\* views smaller and larger than a map, with whole and half pixel edges.
RangePoints ==
    {[x |-> px * Tenth, y |-> py * Tenth] :
        px \in {0 - 15, 40, 105}, py \in {0 - 5, 34, 70}}

RangeDimensions ==
    {[x |-> SCREEN_WIDTH * Scale, y |-> SCREEN_HEIGHT * Scale],
     [x |-> 3 * Scale, y |-> 3 * Scale],
     [x |-> 12 * Scale, y |-> 10 * Scale]}

\* Positions an object is moved to.
MovePoints == {[x |-> 2, y |-> 1]}

\* ---------------------------------------------------------- MultiMapViewer

\* The width and height, in tiles, of the Map that db::getMap returns for
\* a neighbor's name.
NeighborSize(name) ==
    IF name = << "t" >> THEN [width |-> 3, height |-> 2]
    ELSE [width |-> 2, height |-> 3]

\* MapViewer child( *this ): the copy shows this viewer's area at this
\* viewer's place on the screen; centered is the point of its last center.
ChildOf(area) ==
    [map |-> << >>, area |-> area, position |-> [x |-> 0, y |-> 0],
     centered |-> NoPoint]

\* target.draw( child, states ) for the neighbor in direction dir.
Rendered(dir, child) ==
    [dir |-> dir, map |-> child.map, area |-> child.area,
     position |-> child.position, centered |-> child.centered]

\* child.map( neighbor ); child.center( offset )
Recenter(child, neighbor, offset) ==
    [child EXCEPT !.map = neighbor.map,
                  !.area = CenterResult(child.area, offset),
                  !.centered = offset]

\* child.dimension( dim )
Resize(child, w, h) ==
    [child EXCEPT !.area = [@ EXCEPT !.width = w, !.height = h]]

\* The offset MultiMapViewer::draw adds for a neighbor, in tiles of size n.
Shift(neighbor, n) == neighbor.offset * n * Scale

\* The west block of MultiMapViewer::draw.
WestChild(child, area, neighbors) ==
    LET n == neighbors["Left"]
        offset == [x |-> NeighborSize(n.map).width * TILE_WIDTH * Scale
                            + area.left + Half(area.width),
                   y |-> (area.top + Half(area.height)) + Shift(n, TILE_HEIGHT)]
    IN  Resize(Recenter(child, n, offset), 0 - area.left, SCREEN_HEIGHT * Scale)

\* The east block; width is the width of the central map in tiles.
EastChild(child, area, neighbors, width) ==
    LET n == neighbors["Right"]
        offset == [x |-> (area.left + area.width) - width * TILE_WIDTH * Scale,
                   y |-> (area.top + Half(area.height)) + Shift(n, TILE_HEIGHT)]
        c == Recenter(child, n, offset)
        x == SCREEN_WIDTH * Scale - offset.x + c.area.left
    IN  Resize([c EXCEPT !.position = [x |-> x, y |-> 0]],
               SCREEN_WIDTH * Scale - x, SCREEN_HEIGHT * Scale)

\* The north block.
NorthChild(child, area, neighbors) ==
    LET n == neighbors["Up"]
        offset == [x |-> (area.left + Half(area.width)) + Shift(n, TILE_WIDTH),
                   y |-> NeighborSize(n.map).height * TILE_HEIGHT * Scale
                            + area.top + Half(area.height)]
    IN  Resize(Recenter(child, n, offset), SCREEN_WIDTH * Scale, 0 - area.top)

\* The south block: its x offset is taken from getNeighborOffset( Up ).
SouthChild(child, area, neighbors, height) ==
    LET n == neighbors["Down"]
        offset == [x |-> (area.left + Half(area.width))
                            + Shift(neighbors["Up"], TILE_WIDTH),
                   y |-> (area.top + area.height) - height * TILE_HEIGHT * Scale]
        c == Recenter(child, n, offset)
        y == SCREEN_HEIGHT * Scale - offset.y + c.area.top
    IN  Resize([c EXCEPT !.position = [x |-> 0, y |-> y]],
               SCREEN_WIDTH * Scale, SCREEN_HEIGHT * Scale - y)

\* m.getNeighbor( dir ) is not null.
Bound(neighbors, dir) == neighbors[dir].map # << >>

\* The children MultiMapViewer::draw renders, in order, for a viewer with
\* the given area of a map of width x height tiles: one child object is
\* reused from block to block.
MultiDrawChildren(area, neighbors, width, height) ==
    LET s0 == [child |-> ChildOf(area), out |-> << >>]
        s1 == IF Bound(neighbors, "Left") /\ area.left < 0
              THEN LET c == WestChild(s0.child, area, neighbors)
                   IN  [child |-> c, out |-> Append(s0.out, Rendered("Left", c))]
              ELSE s0
        s2 == IF /\ Bound(neighbors, "Right")
                 /\ width * TILE_WIDTH * Scale <= area.left + area.width
              THEN LET c == EastChild(s1.child, area, neighbors, width)
                   IN  [child |-> c, out |-> Append(s1.out, Rendered("Right", c))]
              ELSE s1
        s3 == IF Bound(neighbors, "Up") /\ area.top < 0
              THEN LET c == NorthChild(s2.child, area, neighbors)
                   IN  [child |-> c, out |-> Append(s2.out, Rendered("Up", c))]
              ELSE s2
        s4 == IF /\ Bound(neighbors, "Down")
                 /\ height * TILE_HEIGHT * Scale <= area.top + area.height
              THEN LET c == SouthChild(s3.child, area, neighbors, height)
                   IN  [child |-> c, out |-> Append(s3.out, Rendered("Down", c))]
              ELSE s3
    IN  s4.out

\* ----------------------------------------------------------------- actions

\* The map after construction, built for one of the given seasons.
StartWith(seasons, fields) ==
    /\ g_Field = [i \in 0..(WIDTH * HEIGHT - 1) |-> NoObject]
    /\ m_field \in fields
    /\ m_children = {}
    /\ drawableRef = [d \in Drawables |-> LUA_NOREF]
    /\ registry = EmptyRegistry
    /\ checked \in BOOLEAN
    /\ loaded = FALSE
    /\ source = 0
    /\ m_mapID = 0
    /\ m_season \in seasons
    /\ m_collision = 0
    /\ m_lower = << >>
    /\ m_upper = << >>
    /\ m_isExterior = TRUE
    /\ m_neighbors = NoNeighbors
    /\ m_objects = << >>
    /\ m_activeObjects = << >>
    /\ nextId = 1
    /\ insidePrev = {}
    /\ crashed = FALSE
    /\ parsed = 0
    /\ position = << >>
    /\ m_area = [left |-> 0, top |-> 0, width |-> SCREEN_WIDTH * Scale,
                 height |-> SCREEN_HEIGHT * Scale]
    /\ last = Op("init")

Start(seasons) == StartWith(seasons, {GridField})

Init == Start(Seasons)

\* A map built for spring.
InitSpring == Start({"spring"})

\* Map::load( id, map ) of source src; parseOk: the source parses.
Load(id, src, parseOk, fail) ==
    /\ ~crashed
    /\ m_mapID' = id
    /\ IF ~parseOk
       THEN /\ last' = [Op("load") EXCEPT
                           !.ret = "threw", !.id = id, !.src = src]
            /\ UNCHANGED << farmVars, scriptVars, m_area, checked, loaded, source, m_season, m_collision,
                            m_lower, m_upper, m_isExterior, m_neighbors,
                            m_objects, m_activeObjects, nextId, insidePrev,
                            crashed, parsed, position >>
       ELSE LET ls == LoadLayers(parsed + 1, MapSources[src].layers, 1,
                                 m_season, 0, m_lower, m_upper)
                os == LoadObjects(Flatten(MapSources[src].groups), 1, fail,
                                  nextId, m_objects)
            IN  /\ os.nextId - 1 <= MaxInstances
                /\ parsed < MaxLoads
                /\ parsed' = parsed + 1
                /\ position' = Placed(position, os.objects)
                /\ source' = src
                /\ loaded' = TRUE
                /\ m_collision' = ls.collision
                /\ m_neighbors' = NoNeighbors
                /\ m_lower' = ls.lower
                /\ m_upper' = ls.upper
                /\ m_objects' = os.objects
                /\ nextId' = os.nextId
                /\ m_isExterior' = (MapSources[src].type # "interior")
                /\ last' = [Op("load") EXCEPT
                               !.ret = "ok", !.id = id, !.src = src,
                               !.fail = fail]
                /\ UNCHANGED << farmVars, scriptVars, m_area, checked, m_season, m_activeObjects,
                                insidePrev, crashed >>

\* Map::update( frameTime, pos )
Update(pos, faulty, eraseEnd) ==
    /\ ~crashed
    /\ loaded
    /\ \E r \in {UpdateResult(m_objects, m_activeObjects, pos, faulty,
                              checked, eraseEnd)},
          q \in {UpdateResult(m_objects, m_activeObjects, pos, {},
                              checked, eraseEnd)} :
           /\ m_activeObjects' = r.active
           /\ crashed' = r.crashed
           /\ insidePrev' = {o.id : o \in {x \in Range(m_objects) :
                                             contains(getBounds(x), pos)}}
           /\ last' = [Op("update") EXCEPT
                          !.pos = pos, !.faulty = faulty, !.calls = r.calls,
                          !.console = r.console, !.quiet = Quiet(q),
                          !.ret = IF r.crashed THEN "crash" ELSE "ok"]
    /\ UNCHANGED << farmVars, scriptVars, m_area, checked, loaded, source, m_mapID, m_season, m_collision,
                    m_lower, m_upper, m_isExterior, m_neighbors, m_objects,
                    nextId, parsed, position >>

\* Map::interact( pos )
Interact(pos, faulty) ==
    /\ ~crashed
    /\ loaded
    /\ LET r == InteractResult(m_objects, pos, faulty) IN
       last' = [Op("interact") EXCEPT
                   !.pos = pos, !.faulty = faulty, !.calls = r.acc.calls,
                   !.console = r.acc.console, !.ret = Bool(r.ret)]
    /\ UNCHANGED << farmVars, scriptVars, m_area, checked, loaded, source, m_mapID, m_season, m_collision,
                    m_lower, m_upper, m_isExterior, m_neighbors, m_objects,
                    m_activeObjects, nextId, insidePrev, crashed, parsed,
                    position >>

\* Map::reloadObject( name )
ReloadObject(name, genOk, nullDeref) ==
    /\ ~crashed
    /\ loaded
    /\ nextId <= MaxInstances
    /\ LET r == ReloadResult(source, m_objects, m_activeObjects, name,
                             nextId, genOk, nullDeref)
       IN  /\ m_objects' = r.objects
           /\ m_activeObjects' = r.active
           /\ nextId' = IF r.made # 0 THEN nextId + 1 ELSE nextId
           /\ crashed' = (r.ret = "crash")
           /\ insidePrev' = insidePrev \cap Ids(r.objects)
           /\ position' = Placed(position, r.objects)
           /\ last' = [Op("reloadObject") EXCEPT
                          !.name = name, !.ret = r.ret, !.made = r.made]
    /\ UNCHANGED << farmVars, scriptVars, m_area, checked, loaded, source, m_mapID, m_season, m_collision,
                    m_lower, m_upper, m_isExterior, m_neighbors, parsed >>

\* Map::checkTileCollision( sf::Vector2u( x, y ) ) for the ints x, y
CheckTileCollision(x, y) ==
    /\ ~crashed
    /\ loaded
    /\ last' = [Op("checkTileCollision") EXCEPT
                   !.tx = x, !.ty = y,
                   !.ret = Bool(checkTileCollision(source, m_collision,
                                                   ToUnsigned(x), ToUnsigned(y)))]
    /\ UNCHANGED << farmVars, scriptVars, m_area, checked, loaded, source, m_mapID, m_season, m_collision,
                    m_lower, m_upper, m_isExterior, m_neighbors, m_objects,
                    m_activeObjects, nextId, insidePrev, crashed, parsed,
                    position >>

\* Map::checkObjectCollision( pos )
CheckObjectCollision(pos, faulty) ==
    /\ ~crashed
    /\ loaded
    /\ LET r == checkObjectCollision(m_collision, m_objects, pos, faulty) IN
       last' = [Op("checkObjectCollision") EXCEPT
                   !.pos = pos, !.faulty = faulty, !.asked = r.asked,
                   !.ret = Bool(r.ret)]
    /\ UNCHANGED << farmVars, scriptVars, m_area, checked, loaded, source, m_mapID, m_season, m_collision,
                    m_lower, m_upper, m_isExterior, m_neighbors, m_objects,
                    m_activeObjects, nextId, insidePrev, crashed, parsed,
                    position >>

\* Map::loadNeighbors()
LoadNeighbors ==
    /\ ~crashed
    /\ loaded
    /\ LET properties == MapSources[source].properties IN
       m_neighbors' =
           [d \in Directions |->
               CASE d = "Up"    -> setNeighbor(properties, "north", m_neighbors[d])
                 [] d = "Down"  -> setNeighbor(properties, "south", m_neighbors[d])
                 [] d = "Left"  -> setNeighbor(properties, "west", m_neighbors[d])
                 [] OTHER       -> setNeighbor(properties, "east", m_neighbors[d])]
    /\ last' = Op("loadNeighbors")
    /\ UNCHANGED << farmVars, scriptVars, m_area, checked, loaded, source, m_mapID, m_season, m_collision,
                    m_lower, m_upper, m_isExterior, m_objects,
                    m_activeObjects, nextId, insidePrev, crashed, parsed,
                    position >>

\* MapViewer::center( pos )
Center(pos) ==
    /\ ~crashed
    /\ m_area' = CenterResult(m_area, pos)
    /\ last' = [Op("center") EXCEPT !.pos = pos]
    /\ UNCHANGED << farmVars, scriptVars, checked, loaded, source, m_mapID, m_season, m_collision,
                    m_lower, m_upper, m_isExterior, m_neighbors, m_objects,
                    m_activeObjects, nextId, insidePrev, crashed, parsed,
                    position >>

\* MapViewer::center(), the getter: the point it returns is kept in pos.
GetCenter ==
    /\ ~crashed
    /\ last' = [Op("getCenter") EXCEPT
                   !.pos = [x |-> m_area.left - Half(m_area.width),
                            y |-> m_area.top - Half(m_area.height)]]
    /\ UNCHANGED << farmVars, scriptVars, m_area, checked, loaded, source, m_mapID,
                    m_season, m_collision, m_lower, m_upper, m_isExterior,
                    m_neighbors, m_objects, m_activeObjects, nextId,
                    insidePrev, crashed, parsed, position >>

\* MapViewer::dimension( dim )
Dimension(dim) ==
    /\ ~crashed
    /\ m_area' = [m_area EXCEPT !.width = dim.x, !.height = dim.y]
    /\ last' = [Op("dimension") EXCEPT !.pos = dim]
    /\ UNCHANGED << farmVars, scriptVars, checked, loaded, source, m_mapID, m_season, m_collision,
                    m_lower, m_upper, m_isExterior, m_neighbors, m_objects,
                    m_activeObjects, nextId, insidePrev, crashed, parsed,
                    position >>

\* Map::Object::setPosition( pos ) on the k-th object of the map
SetPosition(k, pos) ==
    /\ ~crashed
    /\ loaded
    /\ k \in 1..Len(m_objects)
    /\ position' = [position EXCEPT ![m_objects[k].id] = pos]
    /\ last' = [Op("setPosition") EXCEPT !.pos = pos, !.made = m_objects[k].id]
    /\ UNCHANGED << farmVars, scriptVars, m_area, checked, loaded, source, m_mapID, m_season, m_collision,
                    m_lower, m_upper, m_isExterior, m_neighbors, m_objects,
                    m_activeObjects, nextId, insidePrev, crashed, parsed >>

\* MapViewer::draw( target, states ) of a viewer of this map that holds
\* the given characters.  The layers drawn are those of the source m_map
\* holds: no load on a loaded Map came before.
Draw(characters, debug) ==
    /\ ~crashed
    /\ loaded
    /\ \A l \in Range(m_lower) \cup Range(m_upper) : l.map = parsed
    /\ LET r == DrawResult(m_area, characters, debug) IN
       /\ position' = IF r.threw /\ ~(\E i \in 1..Len(r.drawn) :
                                        r.drawn[i].kind = "object")
                      THEN position
                      ELSE ResetPositions(m_objects, m_area, position)
       /\ last' = [Op("draw") EXCEPT
                      !.drawn = r.drawn, !.passed = r.passed, !.faulty = {debug},
                      !.asked = characters,
                      !.ret = IF r.threw THEN "threw" ELSE "ok"]
    /\ UNCHANGED << farmVars, scriptVars, m_area, checked, loaded, source, m_mapID, m_season, m_collision,
                    m_lower, m_upper, m_isExterior, m_neighbors, m_objects,
                    m_activeObjects, nextId, insidePrev, crashed, parsed >>

\* MultiMapViewer::draw( target, states ): the children rendered for the
\* neighbors, then MapViewer::draw of the central map, which ends the list
\* of children as the entry "Center".  What a child draws of its own map
\* is not part of this map's state.
MultiDraw(characters, debug) ==
    /\ ~crashed
    /\ loaded
    /\ \A l \in Range(m_lower) \cup Range(m_upper) : l.map = parsed
    /\ LET r == DrawResult(m_area, characters, debug)
           cs == MultiDrawChildren(m_area, m_neighbors,
                                   MapSources[source].width,
                                   MapSources[source].height)
           own == ChildOf(m_area)
       IN
       /\ position' = IF r.threw /\ ~(\E i \in 1..Len(r.drawn) :
                                        r.drawn[i].kind = "object")
                      THEN position
                      ELSE ResetPositions(m_objects, m_area, position)
       /\ last' = [Op("multiDraw") EXCEPT
                      !.drawn = r.drawn, !.passed = r.passed, !.faulty = {debug},
                      !.asked = characters,
                      !.children = Append(cs, Rendered("Center", own)),
                      !.ret = IF r.threw THEN "threw" ELSE "ok"]
    /\ UNCHANGED << farmVars, scriptVars, m_area, checked, loaded, source, m_mapID, m_season, m_collision,
                    m_lower, m_upper, m_isExterior, m_neighbors, m_objects,
                    m_activeObjects, nextId, insidePrev, crashed, parsed >>

\* field::plant( x, y, seed ); solid: the planted object has collision.
Plant(x, y, solid) ==
    /\ ~crashed
    /\ IF g_Field[convert(x, y)].object
       THEN /\ last' = [Op("plant") EXCEPT !.tx = x, !.ty = y, !.ret = "threw"]
            /\ UNCHANGED g_Field
       ELSE /\ g_Field' = [g_Field EXCEPT ![convert(x, y)] = Planted(solid)]
            /\ last' = [Op("plant") EXCEPT !.tx = x, !.ty = y, !.ret = "ok"]
    /\ UNCHANGED << m_field, scriptVars, m_area, checked, loaded, source, m_mapID,
                    m_season, m_collision, m_lower, m_upper, m_isExterior,
                    m_neighbors, m_objects, m_activeObjects, nextId,
                    insidePrev, crashed, parsed, position >>

\* The Field object asked for collision at pos as Map::checkObjectCollision
\* asks it.
FieldCollision(pos, wild) ==
    /\ ~crashed
    /\ last' = [Op("fieldCollision") EXCEPT
                   !.pos = pos,
                   !.ret = Bool(FieldCollides(m_field, g_Field, pos, wild))]
    /\ UNCHANGED << farmVars, scriptVars, m_area, checked, loaded, source, m_mapID,
                    m_season, m_collision, m_lower, m_upper, m_isExterior,
                    m_neighbors, m_objects, m_activeObjects, nextId,
                    insidePrev, crashed, parsed, position >>

\* lua_addImage and lua_addText, called for the drawable d as the kind mt
\* (luaL_checkudata raises an error for a drawable of the other kind).
AddDrawable(mt, d) ==
    /\ ~crashed
    /\ IF mt # d
       THEN /\ last' = [Op("add") EXCEPT !.name = d, !.ret = "threw"]
            /\ UNCHANGED scriptVars
       ELSE /\ m_children' = m_children \cup {d}
            /\ IF drawableRef[d] = LUA_NOREF
               THEN /\ drawableRef' = [drawableRef EXCEPT ![d] = NextRef(registry)]
                    /\ registry' = luaL_ref(registry, d)
               ELSE UNCHANGED << drawableRef, registry >>
            /\ last' = [Op("add") EXCEPT !.name = d, !.ret = "ok"]
    /\ UNCHANGED << farmVars, m_area, checked, loaded, source, m_mapID,
                    m_season, m_collision, m_lower, m_upper, m_isExterior,
                    m_neighbors, m_objects, m_activeObjects, nextId,
                    insidePrev, crashed, parsed, position >>

\* lua_removeImage and lua_removeText
RemoveDrawable(mt, d) ==
    /\ ~crashed
    /\ IF mt # d
       THEN /\ last' = [Op("remove") EXCEPT !.name = d, !.ret = "threw"]
            /\ UNCHANGED scriptVars
       ELSE /\ m_children' = m_children \ {d}
            /\ registry' = luaL_unref(registry, drawableRef[d])
            /\ last' = [Op("remove") EXCEPT !.name = d, !.ret = "ok"]
            /\ UNCHANGED drawableRef
    /\ UNCHANGED << farmVars, m_area, checked, loaded, source, m_mapID,
                    m_season, m_collision, m_lower, m_upper, m_isExterior,
                    m_neighbors, m_objects, m_activeObjects, nextId,
                    insidePrev, crashed, parsed, position >>

\* Map::load on a fresh Map of one of the sources in srcs, whose objects in
\* some set of fails do not construct.
LoadAny(srcs, fails) ==
    \E src \in srcs, parseOk \in BOOLEAN, fail \in fails :
        ~loaded /\ Load(1, src, parseOk, fail)

\* The frame loop on a loaded map, with objects reloaded by name in between.
Next ==
    \/ LoadAny({1}, {{}, {3}})
    \/ \E pos \in Points, eraseEnd \in {"crash", "shrink"} :
          Update(pos, {}, eraseEnd)
    \/ \E name \in Names, genOk \in BOOLEAN, nullDeref \in {"crash", "throw"} :
          ReloadObject(name, genOk, nullDeref)

Spec == InitSpring /\ [][Next]_vars

\* The frame loop with scripts whose callbacks throw.
NextFaults ==
    \/ LoadAny({1}, {{}})
    \/ \E pos \in Points, faulty \in FaultChoices(UpdateCallbacks),
          eraseEnd \in {"crash", "shrink"} : Update(pos, faulty, eraseEnd)

SpecFaults == InitSpring /\ [][NextFaults]_vars

\* The queries of a loaded map, with objects reloaded by name in between.
NextQuery ==
    \/ LoadAny(SmallSources, {{}, {3}})
    \/ \E name \in Names, genOk \in BOOLEAN, nullDeref \in {"crash", "throw"} :
          ReloadObject(name, genOk, nullDeref)
    \/ \E pos \in Points, faulty \in FaultChoices({"onInteract"}) :
          Interact(pos, faulty)
    \/ \E x \in -1..2, y \in -1..2 : CheckTileCollision(x, y)
    \/ \E pos \in Points, faulty \in FaultChoices({"hasCollision"}) :
          CheckObjectCollision(pos, faulty)

SpecQuery == InitSpring /\ [][NextQuery]_vars

\* The sets of object descriptions whose construction fails in a load.
LoadFails == {{}, {1}, {2}, {2, 3}, {1, 2, 3}}

\* Where the actor stands in the frames between loads: inside every object.
EntryPoints == {[x |-> 1, y |-> 0]}

\* Loading, also on a Map that was loaded before, neighbor linking, and
\* frames in between.
NextLoad ==
    \/ \E id \in 1..2, src \in SmallSources, parseOk \in BOOLEAN,
          fail \in LoadFails : Load(id, src, parseOk, fail)
    \/ LoadNeighbors
    \/ \E pos \in EntryPoints : Update(pos, {}, "crash")

SpecLoad == Init /\ [][NextLoad]_vars

\* Interaction requests between the frames of a loaded map.
NextInteract ==
    \/ LoadAny({1}, {{}})
    \/ \E pos \in Points, eraseEnd \in {"crash", "shrink"} :
          Update(pos, {}, eraseEnd)
    \/ \E pos \in Points, faulty \in FaultChoices({"onInteract"}) :
          Interact(pos, faulty)

SpecInteract == InitSpring /\ [][NextInteract]_vars

\* A viewer of a loaded map that is centered, resized and drawn, with
\* objects moved in between.
NextView ==
    \/ LoadAny({1}, {{}})
    \/ \E pos \in CenterPoints : Center(pos)
    \/ \E dim \in Dimensions : Dimension(dim)
    \/ \E k \in 1..MaxInstances, pos \in MovePoints : SetPosition(k, pos)
    \/ \E characters \in CharacterLists, debug \in BOOLEAN :
          Draw(characters, debug)

SpecView == InitSpring /\ [][NextView]_vars

\* A viewer of a loaded map with its neighbors linked, centered, resized
\* and drawn together with the neighbors in view.
NextMulti ==
    \/ LoadAny({1, 2}, {{}})
    \/ LoadNeighbors
    \/ \E pos \in CenterPoints : Center(pos)
    \/ \E dim \in Dimensions : Dimension(dim)
    \/ \E characters \in {<< >>}, debug \in {FALSE} : MultiDraw(characters, debug)

SpecMulti == InitSpring /\ [][NextMulti]_vars

\* A Field object of either size on a farm field that is being planted.
InitField == StartWith({"spring"}, {GridField, WideField})

NextField ==
    \/ \E x \in 0..(WIDTH - 1), y \in 0..(HEIGHT - 1), solid \in BOOLEAN :
          Plant(x, y, solid)
    \/ \E pos \in FieldPoints, wild \in WildTiles : FieldCollision(pos, wild)

SpecField == InitField /\ [][NextField]_vars

\* A script that attaches and detaches its drawables.
NextScript ==
    \/ \E mt \in Drawables, d \in Drawables : AddDrawable(mt, d)
    \/ \E mt \in Drawables, d \in Drawables : RemoveDrawable(mt, d)

SpecScript == InitSpring /\ [][NextScript]_vars

\* Viewers of a small and of a large map, placed anywhere and drawn.
NextRange ==
    \/ LoadAny({1, LargeSource}, {{}})
    \/ \E pos \in RangePoints : Center(pos)
    \/ \E dim \in RangeDimensions : Dimension(dim)
    \/ \E debug \in BOOLEAN : Draw(<< >>, debug)

SpecRange == InitSpring /\ [][NextRange]_vars

\* Loads (also of a Map that is loaded already), frames, interaction
\* requests and reloads of objects in any order.
NextLife ==
    \/ \E parseOk \in BOOLEAN, fail \in {{}, {2}, {2, 3}} :
          Load(1, 1, parseOk, fail)
    \/ \E pos \in Points, eraseEnd \in {"crash", "shrink"} :
          Update(pos, {}, eraseEnd)
    \/ \E pos \in EntryPoints : Interact(pos, {})
    \/ \E name \in Names, genOk \in BOOLEAN, nullDeref \in {"crash", "throw"} :
          ReloadObject(name, genOk, nullDeref)

SpecLife == InitSpring /\ [][NextLife]_vars

\* A viewer that is resized, centered and asked for its center.
NextCenter ==
    \/ \E pos \in RangePoints : Center(pos)
    \/ \E dim \in RangeDimensions : Dimension(dim)
    \/ GetCenter

SpecCenter == InitSpring /\ [][NextCenter]_vars

\* ------------------------------------------------------------------ claims

IsUpdate == last.op = "update"

Returned == last.op = "update" /\ last.ret = "ok"

Inside(o) == contains(getBounds(o), last.pos)

\* C1: in an update call that returns, every object whose bounds hold the
\* position gets onEnter exactly once if the previous update's position was
\* outside its bounds (or there was none since it was built) and not at all
\* otherwise, and it is active when the call returns.
C1_EnterOncePerRun ==
    Returned =>
        \A o \in Range(m_objects) :
            Inside(o) =>
                /\ Count(last.calls, "onEnter", o.id)
                      = (IF o.id \in last.insideBefore THEN 0 ELSE 1)
                /\ o \in Range(m_activeObjects)

\* C2: in an update call that returns, every object that was active when the
\* call started and whose bounds do not hold the position got onExit exactly
\* once and is no longer active.
C2_ExitOnLeave ==
    Returned =>
        \A o \in Range(last.activeBefore) :
            ~Inside(o) =>
                /\ Count(last.calls, "onExit", o.id) = 1
                /\ o \notin Range(m_activeObjects)

\* C3: every update call invokes the update callback exactly once on every
\* object of the map.
C3_UpdateEveryObject ==
    IsUpdate =>
        \A o \in Range(m_objects) : Count(last.calls, "update", o.id) = 1

\* C4: after an update call returns, the active objects are exactly the
\* objects of the map whose bounds hold the position.
C4_ActiveIsInside ==
    Returned =>
        Range(m_activeObjects) = {o \in Range(m_objects) : Inside(o)}

Phase(cb) ==
    CASE cb = "onExit" -> 1
      [] cb = "update" -> 2
      [] cb = "whileInside" -> 3
      [] OTHER -> 4

Got(cb, id) == \E i \in 1..Len(last.calls) :
                  last.calls[i].cb = cb /\ last.calls[i].obj = id

\* C5: the callbacks of one update call come in phase order (onExit, update,
\* whileInside, onEnter); no object gets both onExit and onEnter, and no
\* object gets both onEnter and whileInside, in the same call.
C5_PhaseOrder ==
    IsUpdate =>
        /\ \A i, j \in 1..Len(last.calls) :
              i < j => Phase(last.calls[i].cb) <= Phase(last.calls[j].cb)
        /\ \A o \in Range(last.objectsBefore) :
              /\ ~(Got("onExit", o.id) /\ Got("onEnter", o.id))
              /\ ~(Got("onEnter", o.id) /\ Got("whileInside", o.id))

\* A returned call that made callbacks of all four phases.
C5_Witness ==
    /\ Returned
    /\ \A cb \in UpdateCallbacks : \E i \in 1..Len(last.calls) : last.calls[i].cb = cb

\* C6: an update call in which callbacks throw ends as the same call does
\* when nothing throws: it makes the same callbacks on the same objects in
\* the same order, leaves the same active objects, and returns if that one
\* returns.
C6_ThrowsChangeNothing ==
    IsUpdate =>
        /\ last.calls = last.quiet.calls
        /\ m_activeObjects = last.quiet.active
        /\ crashed = last.quiet.crashed

Threw(cb) == \E i \in 1..Len(last.console) : last.console[i][1] = cb

\* A returned call in which an onExit and an onEnter threw, among others.
C6_Witness ==
    /\ Returned
    /\ Threw("onExit") /\ Threw("onEnter") /\ Threw("update")
    /\ Len(m_activeObjects) > 0
    /\ Len(m_activeObjects) < Len(last.activeBefore) + 1

IsReload == last.op = "reloadObject"

OtherName(o) == getName(o) # last.name

\* C7: after a successful reloadObject( name ) the objects with another name
\* are the same instances in the same order, followed by one fresh instance
\* of that name; the active objects are the former ones without the old
\* instance of that name, in the same order; the fresh instance is not active.
C7_ReloadKeepsOthers ==
    (IsReload /\ last.ret = "ok") =>
        /\ Len(m_objects) > 0
        /\ SubSeq(m_objects, 1, Len(m_objects) - 1)
              = SelectSeq(last.objectsBefore, OtherName)
        /\ m_activeObjects = SelectSeq(last.activeBefore, OtherName)
        /\ LET fresh == m_objects[Len(m_objects)] IN
              /\ getName(fresh) = last.name
              /\ fresh.id \notin Ids(last.objectsBefore)
              /\ fresh \notin Range(m_activeObjects)

\* A successful reload of an object that was active beside another one.
C7_Witness ==
    /\ IsReload /\ last.ret = "ok"
    /\ \E o \in Range(last.activeBefore) : ~OtherName(o)
    /\ m_activeObjects # << >>
    /\ Len(m_objects) >= 3

Unmatched ==
    /\ \A o \in Range(last.objectsBefore) : getName(o) # last.name
    /\ \A t \in Range(Flatten(MapSources[source].groups)) : TmxName(t) # last.name

\* C8: reloadObject with a name that matches neither a live object nor an
\* object of the source fails with a reported error and changes neither the
\* objects nor the active objects.
C8_UnknownNameFails ==
    (IsReload /\ Unmatched) =>
        /\ last.ret = "threw"
        /\ ~crashed
        /\ m_objects = last.objectsBefore
        /\ m_activeObjects = last.activeBefore

\* C9: checkTileCollision( x, y ) is true exactly when there is a collision
\* layer, 0 <= x < width, 0 <= y < height and the collision layer's tile at
\* ( x, y ) has a tileset.
C9_TileCollision ==
    last.op = "checkTileCollision" =>
        (last.ret = "true" <=>
            /\ m_collision # 0
            /\ 0 <= last.tx /\ last.tx < MapSources[source].width
            /\ 0 <= last.ty /\ last.ty < MapSources[source].height
            /\ MapSources[source].layers[m_collision].tiles[
                   last.ty * MapSources[source].width + last.tx + 1])

\* A query inside the map on a tile of the collision layer with a tileset.
C9_Witness ==
    /\ last.op = "checkTileCollision"
    /\ last.ret = "true"
    /\ last.tx = 1 /\ last.ty = 1

\* C10: checkObjectCollision( p ) is false without a collision layer;
\* otherwise it is true exactly when an object whose bounds hold p reports
\* hasCollision at p relative to its position; hasCollision is asked of no
\* object whose bounds do not hold p.
C10_ObjectCollision ==
    last.op = "checkObjectCollision" =>
        /\ m_collision = 0 => last.ret = "false" /\ last.asked = << >>
        /\ m_collision # 0 =>
              (last.ret = "true" <=>
                  \E o \in Range(m_objects) :
                      /\ Inside(o)
                      /\ hasCollision(o, last.pos.x - getPosition(o).x,
                                      last.pos.y - getPosition(o).y, last.faulty))
        /\ \A i \in 1..Len(last.asked) :
              \E o \in Range(m_objects) : o.id = last.asked[i] /\ Inside(o)

\* A blocked point found after an object that holds the point did not block.
C10_Witness ==
    /\ last.op = "checkObjectCollision"
    /\ last.ret = "true"
    /\ Len(last.asked) >= 2
    /\ Len(last.asked) < Len(m_objects)

LoadedOk == last.op = "load" /\ last.ret = "ok"

SourceLayers == MapSources[source].layers

InLower(i) == LayerPtr(parsed, i) \in Range(m_lower)

InUpper(i) == LayerPtr(parsed, i) \in Range(m_upper)

\* C11: after a load, a layer of the source other than the collision layer
\* is among the lower or upper layers exactly when it has no "season"
\* property or the map's season is in its season set.
C11_SeasonalLayers ==
    LoadedOk =>
        \A i \in 1..Len(SourceLayers) :
            i # m_collision =>
                ((InLower(i) \/ InUpper(i)) <=>
                    (~SourceLayers[i].hasSeason
                        \/ m_season \in SourceLayers[i].seasons))

\* A load that kept one layer with a "season" property and dropped another.
C11_Witness ==
    /\ LoadedOk
    /\ \E i, j \in 1..Len(SourceLayers) :
          /\ SourceLayers[i].hasSeason /\ (InLower(i) \/ InUpper(i))
          /\ SourceLayers[j].hasSeason /\ ~(InLower(j) \/ InUpper(j))

CollisionNames == {"collision", "Collision", "COLLISION"}

\* seq holds the layers of the source last parsed in source order, once each.
InSourceOrder(seq) ==
    \A a, b \in 1..Len(seq) :
        (a < b /\ seq[a].map = parsed /\ seq[b].map = parsed)
            => seq[a].layer < seq[b].layer

\* C12: after a load, the collision layer is the first layer of the source
\* called "collision" in any letter case (none if there is no such layer)
\* and is neither a lower nor an upper layer; no layer is both lower and
\* upper; a loaded layer is upper exactly when its "render" property is
\* "above"; lower and upper keep the source order.
C12_LayerPartition ==
    LoadedOk =>
        LET named == {i \in 1..Len(SourceLayers) :
                         SourceLayers[i].name \in CollisionNames}
        IN  /\ m_collision = (IF named = {} THEN 0
                              ELSE CHOOSE i \in named : \A j \in named : i <= j)
            /\ m_collision # 0 => ~InLower(m_collision) /\ ~InUpper(m_collision)
            /\ \A i \in 1..Len(SourceLayers) :
                  /\ ~(InLower(i) /\ InUpper(i))
                  /\ InUpper(i) => SourceLayers[i].render = "above"
                  /\ InLower(i) => SourceLayers[i].render # "above"
            /\ InSourceOrder(m_lower)
            /\ InSourceOrder(m_upper)

\* A load of ground, Collision, trees (render above), ..., COLLISION: the
\* first is lower, the second the collision layer, the third upper, and the
\* second layer called collision is an ordinary lower layer.
C12_Witness ==
    /\ LoadedOk
    /\ m_collision = 2
    /\ InLower(1) /\ InUpper(3) /\ InLower(6)

\* The descriptions of the loaded source whose construction succeeded.
Constructed ==
    LET all == Flatten(MapSources[source].groups)
        Succeeds(t) == t \notin last.fail
    IN  SelectSeq(all, Succeeds)

\* C13: after a load in which the construction of some objects fails, the
\* object list holds exactly the objects of the source whose construction
\* succeeded, in group order, then object order.
C13_FailedObjectsSkipped ==
    LoadedOk =>
        /\ Len(m_objects) = Len(Constructed)
        /\ \A k \in 1..Len(m_objects) : m_objects[k].tmx = Constructed[k]

\* C14: a load that fails because the source does not parse leaves the
\* map's id, layers, collision layer, neighbor links and objects as they
\* were before the call.
C14_FailedLoadKeepsState ==
    (last.op = "load" /\ last.ret = "threw") =>
        /\ m_mapID = last.mapIDBefore
        /\ m_lower = last.lowerBefore
        /\ m_upper = last.upperBefore
        /\ m_collision = last.collisionBefore
        /\ m_neighbors = last.neighborsBefore
        /\ m_objects = last.objectsBefore

\* C15: after a load, also on a Map that was loaded before, the lower
\* layers, upper layers, objects and active objects are those of a fresh
\* Map loaded once with the same source.
C15_LoadReplaces ==
    LoadedOk =>
        LET fresh == LoadLayers(parsed, SourceLayers, 1, m_season, 0,
                                << >>, << >>)
        IN  /\ m_lower = fresh.lower
            /\ m_upper = fresh.upper
            /\ m_collision = fresh.collision
            /\ Len(m_objects) = Len(Constructed)
            /\ \A k \in 1..Len(m_objects) : m_objects[k].tmx = Constructed[k]
            /\ m_activeObjects = << >>

\* The largest offset looked for in a neighbor property.
MaxOffset == 20

\* The decimal digits of a natural number.
RECURSIVE Digits(_)
Digits(n) ==
    IF n < 10 THEN << DigitChars[n + 1] >>
    ELSE Digits(n \div 10) \o << DigitChars[(n % 10) + 1] >>

\* An integer as written in a property value.
Decimal(k) == IF k < 0 THEN << "-" >> \o Digits(0 - k) ELSE Digits(k)

NeighborProperty(d) ==
    CASE d = "Up" -> "north"
      [] d = "Down" -> "south"
      [] d = "Left" -> "west"
      [] OTHER -> "east"

\* C16: after loadNeighbors on a loaded map, a direction whose property is
\* absent is unbound with offset 0; a direction whose property is "name,k"
\* is bound to name with offset k; one whose property is a bare "name" is
\* bound to name with offset 0.
C16_NeighborBinding ==
    last.op = "loadNeighbors" =>
        \A d \in Directions :
            LET properties == MapSources[source].properties
                n == NeighborProperty(d)
            IN  IF n \notin DOMAIN properties
                THEN m_neighbors[d] = [map |-> << >>, offset |-> 0]
                ELSE LET value == properties[n] IN
                     /\ m_neighbors[d].map # << >>
                     /\ (\A i \in 1..Len(value) : value[i] # ",")
                           => m_neighbors[d] = [map |-> value, offset |-> 0]
                     /\ \A j \in 1..Len(value), k \in (0 - MaxOffset)..MaxOffset :
                           value = SubSeq(value, 1, j) \o << "," >> \o Decimal(k)
                               => m_neighbors[d] = [map |-> SubSeq(value, 1, j),
                                                    offset |-> k]

\* Neighbor linking right after a load that binds a direction with an
\* offset, binds another by a bare name and leaves one unbound.
C16_Witness ==
    /\ last.op = "loadNeighbors"
    /\ last.neighborsBefore = NoNeighbors
    /\ m_neighbors["Up"] = [map |-> << "b", "n" >>, offset |-> 3]
    /\ m_neighbors["Left"] = [map |-> << "t" >>, offset |-> 0]
    /\ m_neighbors["Down"] = [map |-> << >>, offset |-> 0]

\* The largest whole coordinate, in pixels, a view is centered on.
MaxFocal == 12

\* C17: MapViewer::center( p ) rounds each coordinate of p to the nearest
\* whole number, a fraction of one half going upward, puts the left and top
\* of the view half its width and height before the rounded point, and
\* leaves the width and height as they were.
C17_CenterRounds ==
    last.op = "center" =>
        \E rx, ry \in (0 - MaxFocal)..MaxFocal :
            /\ 2 * (rx * Scale - last.pos.x) <= Scale
            /\ 2 * (last.pos.x - rx * Scale) < Scale
            /\ 2 * (ry * Scale - last.pos.y) <= Scale
            /\ 2 * (last.pos.y - ry * Scale) < Scale
            /\ 2 * m_area.left = 2 * rx * Scale - m_area.width
            /\ 2 * m_area.top = 2 * ry * Scale - m_area.height
            /\ m_area.width = last.areaBefore.width
            /\ m_area.height = last.areaBefore.height

\* A view of a width other than the initial one centered on (10.5, 3.4):
\* its focal point is (11, 3).
C17_Witness ==
    /\ last.op = "center"
    /\ 10 * last.pos.x = 105 * Scale
    /\ 10 * last.pos.y = 34 * Scale
    /\ m_area.width = 2 * Scale
    /\ 2 * m_area.left + m_area.width = 2 * 11 * Scale
    /\ 2 * m_area.top + m_area.height = 2 * 3 * Scale

\* The objects of the map whose bounds contain the point of the last
\* operation.
Containing == {o \in Range(m_objects) : contains(getBounds(o), last.pos)}

\* C18: Map::interact( p ) invokes onInteract once on each object whose
\* bounds contain p and on no other, returns true exactly when some object
\* contains p, whether or not a callback threw, and leaves m_objects and
\* m_activeObjects as they were.
C18_Interact ==
    last.op = "interact" =>
        /\ \A o \in Range(m_objects) :
              Count(last.calls, "onInteract", o.id) =
                  IF o \in Containing THEN 1 ELSE 0
        /\ Len(last.calls) = Cardinality(Containing)
        /\ last.ret = "true" <=> Containing # {}
        /\ m_objects = last.objectsBefore
        /\ m_activeObjects = last.activeBefore

\* An interaction, on a map with active objects, at a point that some
\* objects contain and another does not, every invoked callback throwing.
C18_Witness ==
    /\ last.op = "interact"
    /\ last.ret = "true"
    /\ m_activeObjects # << >>
    /\ Cardinality(Containing) >= 2
    /\ Containing # Range(m_objects)
    /\ \A o \in Containing : <<"onInteract", o.tmx>> \in last.faulty

\* The place of each kind of submission in a frame.
Rank(kind) ==
    CASE kind = "lower" -> 1
      [] kind = "object" -> 2
      [] kind \in {"actor", "overlay"} -> 3
      [] kind = "upper" -> 4
      [] OTHER -> 5

\* The submissions of the last draw of the given kind.
Drawn(kind) ==
    {i \in 1..Len(last.drawn) : last.drawn[i].kind = kind}

\* C19: a MapViewer::draw that returns submits the frame in this order: the
\* lower tiles, the objects whose bounds intersect the view, the characters
\* on this map whose bounds intersect the view, the upper tiles and, only
\* with collision debugging on, the collision layer; each such object and
\* each such character is submitted once.
C19_DrawOrder ==
    (last.op = "draw" /\ last.ret = "ok") =>
        /\ \A i, j \in 1..Len(last.drawn) :
              i < j => Rank(last.drawn[i].kind) <= Rank(last.drawn[j].kind)
        /\ Drawn("collision") # {} => TRUE \in last.faulty
        /\ \A o \in Range(m_objects) :
              Cardinality({i \in Drawn("object") : last.drawn[i].what = o.id}) =
                  IF intersects(m_area, ToFloatRect(getBounds(o))) THEN 1 ELSE 0
        /\ \A c \in 1..Len(last.asked) :
              Cardinality({i \in Drawn("actor") : last.drawn[i].what = c}) =
                  IF /\ last.asked[c].map = m_mapID
                     /\ intersects(m_area, last.asked[c].bounds)
                  THEN 1 ELSE 0
        /\ \A i \in Drawn("lower") : LayerPtr(parsed, last.drawn[i].what) \in Range(m_lower)
        /\ \A i \in Drawn("upper") : LayerPtr(parsed, last.drawn[i].what) \in Range(m_upper)

\* A frame with lower tiles, at least two objects, a character, upper tiles
\* and the collision layer.
C19_Witness ==
    /\ last.op = "draw"
    /\ last.ret = "ok"
    /\ Drawn("lower") # {}
    /\ Cardinality(Drawn("object")) >= 2
    /\ Drawn("actor") # {}
    /\ Drawn("upper") # {}
    /\ Drawn("collision") # {}

\* C20: MapViewer::draw leaves the position of every object as it was
\* before the call, also a position that is not the origin of the object's
\* bounds.
C20_DrawKeepsPositions ==
    last.op = "draw" => position = last.positionBefore

\* The view of the last operation extends strictly past the edge of the
\* central map in direction d.
Past(d) ==
    CASE d = "Left" -> m_area.left < 0
      [] d = "Up" -> m_area.top < 0
      [] d = "Right" -> m_area.left + m_area.width >
                            MapSources[source].width * TILE_WIDTH * Scale
      [] OTHER -> m_area.top + m_area.height >
                      MapSources[source].height * TILE_HEIGHT * Scale

\* C21: MultiMapViewer::draw renders a child for a direction exactly when
\* the neighbor of that direction is bound and the view extends strictly
\* past that edge of the central map, and renders the central map after
\* all the children.
C21_NeighborChildren ==
    last.op = "multiDraw" =>
        LET cs == last.children IN
        /\ \A d \in Directions :
              (\E i \in 1..Len(cs) : cs[i].dir = d)
                  <=> (Bound(m_neighbors, d) /\ Past(d))
        /\ cs[Len(cs)].dir = "Center"
        /\ \A i \in 1..(Len(cs) - 1) : cs[i].dir # "Center"

\* C22: the child MultiMapViewer::draw renders for a direction is centered
\* on the middle of the view shifted, along the seam, by the offset of
\* that same direction's neighbor times the tile size.
C22_ChildOffsets ==
    last.op = "multiDraw" =>
        \A i \in 1..Len(last.children) :
            LET c == last.children[i] IN
            /\ c.dir \in {"Left", "Right"} =>
                  2 * c.centered.y = 2 * m_area.top + m_area.height
                      + 2 * m_neighbors[c.dir].offset * TILE_HEIGHT * Scale
            /\ c.dir \in {"Up", "Down"} =>
                  2 * c.centered.x = 2 * m_area.left + m_area.width
                      + 2 * m_neighbors[c.dir].offset * TILE_WIDTH * Scale

\* The child rendered for direction d when no block of another direction
\* ran before it.
Solo(d) ==
    LET fresh == ChildOf(m_area)
        width == MapSources[source].width
        height == MapSources[source].height
    IN  Rendered(d,
            CASE d = "Left" -> WestChild(fresh, m_area, m_neighbors)
              [] d = "Right" -> EastChild(fresh, m_area, m_neighbors, width)
              [] d = "Up" -> NorthChild(fresh, m_area, m_neighbors)
              [] OTHER -> SouthChild(fresh, m_area, m_neighbors, height))

\* C24: the view rectangle and the screen placement of the child rendered
\* for a direction are the same whether or not a child was rendered for
\* another direction in the same call.
C24_ChildrenIndependent ==
    last.op = "multiDraw" =>
        \A i \in 1..Len(last.children) :
            LET c == last.children[i] IN
            c.dir # "Center" =>
                /\ c.area = Solo(c.dir).area
                /\ c.position = Solo(c.dir).position

\* C23: the Field object reports collision at a point only when the point
\* is inside its bounds and the farm tile at (floor(localX / 32),
\* floor(localY / 32)) holds a planted object that has collision.
C23_FieldCollision ==
    (last.op = "fieldCollision" /\ last.ret = "true") =>
        /\ contains(m_field, last.pos)
        /\ LET cx == (last.pos.x - m_field.left) \div 32
               cy == (last.pos.y - m_field.top) \div 32
           IN  /\ cx \in 0..(WIDTH - 1)
               /\ cy \in 0..(HEIGHT - 1)
               /\ g_Field[cy * WIDTH + cx] = Planted(TRUE)

\* A live registry reference to the drawable d: the key the drawable
\* remembers holds the drawable.
Referenced(d) ==
    /\ drawableRef[d] \in DOMAIN registry.held
    /\ registry.held[drawableRef[d]] = d

\* C27: whenever a drawable is attached to the object as a child, it holds
\* a live registry reference.
C27_AttachedIsReferenced ==
    \A d \in m_children : Referenced(d)

\* C25: whatever the view and the size of the map, MapViewer::draw passes
\* to the layer renderer only tile coordinates with 0 <= x < map width and
\* 0 <= y < map height, and no out-of-bounds error leaves the draw.
C25_TilesInBounds ==
    last.op = "draw" =>
        /\ last.ret # "threw"
        /\ \A t \in last.passed :
              /\ 0 <= t[1] /\ t[1] < MapSources[source].width
              /\ 0 <= t[2] /\ t[2] < MapSources[source].height

\* A draw of the large map through a view that starts inside the map, not
\* on a tile edge, and ends past its right and bottom edges.
C25_Witness ==
    /\ last.op = "draw"
    /\ source = LargeSource
    /\ m_area.left > 0 /\ m_area.left % (TILE_WIDTH * Scale) # 0
    /\ m_area.top > 0
    /\ m_area.left + m_area.width > MapSources[source].width * TILE_WIDTH * Scale
    /\ m_area.top + m_area.height > MapSources[source].height * TILE_HEIGHT * Scale
    /\ last.passed # {}

\* C26: after any interleaving of Map::load, Map::update, Map::interact
\* and Map::reloadObject that the process survives, the active set has no
\* duplicates and each of its members is in the map's object list.
C26_ActiveSetValid ==
    ~crashed =>
        /\ \A i, j \in 1..Len(m_activeObjects) :
              m_activeObjects[i] = m_activeObjects[j] => i = j
        /\ \A i \in 1..Len(m_activeObjects) :
              m_activeObjects[i] \in Range(m_objects)

\* The reload of an object that was active, on a map loaded twice whose
\* active set still has two members.
C26_Witness ==
    /\ last.op = "reloadObject"
    /\ last.ret = "ok"
    /\ parsed = 2
    /\ Len(last.activeBefore) = 3
    /\ Len(m_activeObjects) = 2

\* C28: the getter center() called right after center( p ) returns the
\* rounded point round( p ), whatever the dimensions of the view.
C28_CenterRoundTrip ==
    [][(last.op = "center" /\ last'.op = "getCenter")
          => last'.pos = roundVector(last.pos)]_vars

====
